---- MODULE Spec2Model ----
(***************************************************************************)
(* Little-endian binary codec of focela/loom (package binary).             *)
(*                                                                         *)
(* Integers of the program are modelled at their machine width.  A machine *)
(* integer is its 64-bit pattern written as four 16-bit limbs, least       *)
(* significant limb first: <<l1, l2, l3, l4>> stands for                   *)
(* l1 + 2^16*l2 + 2^32*l3 + 2^48*l4.  A value of a signed type is kept     *)
(* sign-extended to 64 bits, a value of an unsigned type zero-extended, so *)
(* that equal patterns are equal values within one type.  The native types *)
(* int and uint are the 64-bit ones (a 64-bit build).                      *)
(* A byte buffer is a sequence of numbers in 0..255.  A boolean is kept as  *)
(* the one-element tuple True or False.                                    *)
(***************************************************************************)
EXTENDS Integers, Sequences, FiniteSets, TLC

VARIABLES enc, vals, n, buf, dec, out, slots, err

vars == <<enc, vals, n, buf, dec, out, slots, err>>

----------------------------------------------------------------------------
(* Bounds of the model. *)

\* longest value list given to LeEncode / LeEncodeByLength
MaxVals == 3
\* largest length requested of LeEncodeByLength
MaxN == 6
\* longest text given to LeEncodeString
MaxStrLen == 9
\* most destination slots given to LeDecode
MaxSlots == 2

----------------------------------------------------------------------------
(* Machine integers. *)

Limb == 256 * 256
Ones == Limb - 1
SignLimb == Limb \div 2

Pat(a, b, c, d) == <<a, b, c, d>>

\* the low w bytes of x, the rest cleared (conversion to an unsigned type of w bytes)
ToUint(x, w) ==
    CASE w = 1 -> Pat(x[1] % 256, 0, 0, 0)
      [] w = 2 -> Pat(x[1], 0, 0, 0)
      [] w = 4 -> Pat(x[1], x[2], 0, 0)
      [] OTHER -> x

\* the sign bit of x read at w bytes
SignBit(x, w) ==
    CASE w = 1 -> (x[1] % 256) >= 128
      [] w = 2 -> x[1] >= SignLimb
      [] w = 4 -> x[2] >= SignLimb
      [] OTHER -> x[4] >= SignLimb

\* the low w bytes of x, sign-extended (conversion to a signed type of w bytes)
ToInt(x, w) ==
    IF ~SignBit(x, w) THEN ToUint(x, w)
    ELSE CASE w = 1 -> Pat((x[1] % 256) + (Limb - 256), Ones, Ones, Ones)
           [] w = 2 -> Pat(x[1], Ones, Ones, Ones)
           [] w = 4 -> Pat(x[1], x[2], Ones, Ones)
           [] OTHER -> x

\* x <= y, both unsigned
ULeq(x, y) ==
    IF x[4] # y[4] THEN x[4] < y[4]
    ELSE IF x[3] # y[3] THEN x[3] < y[3]
    ELSE IF x[2] # y[2] THEN x[2] < y[2]
    ELSE x[1] <= y[1]

\* x <= y, both signed (two's complement)
SLeq(x, y) ==
    IF SignBit(x, 8) # SignBit(y, 8) THEN SignBit(x, 8) ELSE ULeq(x, y)

\* byte(x >> (8*k)), k in 0..7
ByteOf(x, k) == (x[(k \div 2) + 1] \div (IF k % 2 = 0 THEN 1 ELSE 256)) % 256

MaxInt8 == Pat(127, 0, 0, 0)
MaxInt16 == Pat(SignLimb - 1, 0, 0, 0)
MaxInt32 == Pat(Ones, SignLimb - 1, 0, 0)
MaxUint8 == Pat(255, 0, 0, 0)
MaxUint16 == Pat(Ones, 0, 0, 0)
MaxUint32 == Pat(Ones, Ones, 0, 0)

----------------------------------------------------------------------------
(* encoding/binary.LittleEndian, as the codec calls it. *)

PutUint16(v) == <<ByteOf(v, 0), ByteOf(v, 1)>>
\* PutUint32 writing the most significant byte first
PutUint32BigEndian(v) == [k \in 1..4 |-> ByteOf(v, 4 - k)]

PutUint32(v) == [k \in 1..4 |-> ByteOf(v, k - 1)]
PutUint64(v) == [k \in 1..8 |-> ByteOf(v, k - 1)]

\* b holds at least 2, 4, 8 bytes
Uint16(b) == Pat(b[1] + 256 * b[2], 0, 0, 0)
Uint32(b) == Pat(b[1] + 256 * b[2], b[3] + 256 * b[4], 0, 0)
Uint64(b) == Pat(b[1] + 256 * b[2], b[3] + 256 * b[4],
                 b[5] + 256 * b[6], b[7] + 256 * b[8])

----------------------------------------------------------------------------
(* Fixed-width and native-width encoders. *)

LeEncodeInt8(i) == <<ByteOf(i, 0)>>
LeEncodeUint8(i) == <<ByteOf(i, 0)>>
LeEncodeInt16(i) == PutUint16(ToUint(i, 2))
LeEncodeUint16(i) == PutUint16(i)
LeEncodeInt32(i) == PutUint32(ToUint(i, 4))
LeEncodeUint32(i) == PutUint32(i)
LeEncodeInt64(i) == PutUint64(ToUint(i, 8))
LeEncodeUint64(i) == PutUint64(i)

LeEncodeInt(i) ==
    IF SLeq(i, MaxInt8) THEN LeEncodeInt8(ToInt(i, 1))
    ELSE IF SLeq(i, MaxInt16) THEN LeEncodeInt16(ToInt(i, 2))
    ELSE IF SLeq(i, MaxInt32) THEN LeEncodeInt32(ToInt(i, 4))
    ELSE LeEncodeInt64(ToInt(i, 8))

\* LeEncodeUint whose third branch encodes at 16 bits
LeEncodeUintNarrow(i) ==
    IF ULeq(i, MaxUint8) THEN LeEncodeUint8(ToUint(i, 1))
    ELSE IF ULeq(i, MaxUint16) THEN LeEncodeUint16(ToUint(i, 2))
    ELSE IF ULeq(i, MaxUint32) THEN LeEncodeUint16(ToUint(i, 2))
    ELSE LeEncodeUint64(ToUint(i, 8))

LeEncodeUint(i) ==
    IF ULeq(i, MaxUint8) THEN LeEncodeUint8(ToUint(i, 1))
    ELSE IF ULeq(i, MaxUint16) THEN LeEncodeUint16(ToUint(i, 2))
    ELSE IF ULeq(i, MaxUint32) THEN LeEncodeUint32(ToUint(i, 4))
    ELSE LeEncodeUint64(ToUint(i, 8))

LeEncodeString(s) == s

True == <<1>>
False == <<0>>
Bool(p) == IF p THEN True ELSE False

LeEncodeBool(b) == IF b = True THEN <<1>> ELSE <<0>>

----------------------------------------------------------------------------
(* Values given to the variadic encoder: a kind and a payload. *)

Val(k, v) == [k |-> k, v |-> v]
Nil == Val("nil", <<>>)

\* the type switch of LeEncode, for one value that is not nil.  The float
\* kinds and the reflective default branch are outside the modelled inputs.
EncodeValue(value) ==
    CASE value.k = "int" -> LeEncodeInt(value.v)
      [] value.k = "int8" -> LeEncodeInt8(value.v)
      [] value.k = "int16" -> LeEncodeInt16(value.v)
      [] value.k = "int32" -> LeEncodeInt32(value.v)
      [] value.k = "int64" -> LeEncodeInt64(value.v)
      [] value.k = "uint" -> LeEncodeUint(value.v)
      [] value.k = "uint8" -> LeEncodeUint8(value.v)
      [] value.k = "uint16" -> LeEncodeUint16(value.v)
      [] value.k = "uint32" -> LeEncodeUint32(value.v)
      [] value.k = "uint64" -> LeEncodeUint64(value.v)
      [] value.k = "bool" -> LeEncodeBool(value.v)
      [] value.k = "string" -> LeEncodeString(value.v)
      [] value.k = "bytes" -> value.v

\* the loop of LeEncode skipping an absent value instead of returning
RECURSIVE LeEncodeFromSkipNil(_, _, _)
LeEncodeFromSkipNil(values, i, acc) ==
    IF i > Len(values) THEN acc
    ELSE IF values[i].k = "nil" THEN LeEncodeFromSkipNil(values, i + 1, acc)
    ELSE LeEncodeFromSkipNil(values, i + 1, acc \o EncodeValue(values[i]))

\* the loop of LeEncode writing each value in front of the buffer
RECURSIVE LeEncodeFromPrepend(_, _, _)
LeEncodeFromPrepend(values, i, acc) ==
    IF i > Len(values) THEN acc
    ELSE IF values[i].k = "nil" THEN acc
    ELSE LeEncodeFromPrepend(values, i + 1, EncodeValue(values[i]) \o acc)

\* the loop of LeEncode from position i on, acc being the buffer written so far
RECURSIVE LeEncodeFrom(_, _, _)
LeEncodeFrom(values, i, acc) ==
    IF i > Len(values) THEN acc
    ELSE IF values[i].k = "nil" THEN acc
    ELSE LeEncodeFrom(values, i + 1, acc \o EncodeValue(values[i]))

LeEncode(values) == LeEncodeFrom(values, 1, <<>>)

Zeros(l) == [k \in 1..l |-> 0]

\* LeEncodeByLength without the truncating branch
LeEncodeByLengthPadOnly(length, values) ==
    LET b == LeEncode(values)
    IN  IF Len(b) < length THEN b \o Zeros(length - Len(b)) ELSE b

LeEncodeByLength(length, values) ==
    LET b == LeEncode(values)
    IN  IF Len(b) < length THEN b \o Zeros(length - Len(b))
        ELSE IF Len(b) > length THEN SubSeq(b, 1, length)
        ELSE b

----------------------------------------------------------------------------
(* Single-value decoders.  A result is a returned value or a run-time panic. *)

Ok(v) == [ok |-> TRUE, v |-> v]
Panic == [ok |-> FALSE, v |-> <<>>]

\* LeFillUpSize copying a short buffer to the end of the new one
LeFillUpSizeLeftPad(b, l) ==
    IF Len(b) >= l THEN SubSeq(b, 1, l)
    ELSE [k \in 1..l |-> IF k > l - Len(b) THEN b[k - (l - Len(b))] ELSE 0]

LeFillUpSize(b, l) ==
    IF Len(b) >= l THEN SubSeq(b, 1, l)
    ELSE [k \in 1..l |-> IF k <= Len(b) THEN b[k] ELSE 0]

LeDecodeToString(b) == Ok(b)

LeDecodeToBool(b) == Ok(Bool(Len(b) > 0 /\ b[1] # 0))

\* b[0] of an empty slice is an index-out-of-range panic
LeDecodeToInt8(b) ==
    IF Len(b) = 0 THEN Panic ELSE Ok(ToInt(Pat(b[1], 0, 0, 0), 1))

LeDecodeToUint8(b) ==
    IF Len(b) = 0 THEN Panic ELSE Ok(Pat(b[1], 0, 0, 0))

LeDecodeToInt16(b) == Ok(ToInt(Uint16(LeFillUpSize(b, 2)), 2))
LeDecodeToUint16(b) == Ok(Uint16(LeFillUpSize(b, 2)))
LeDecodeToInt32(b) == Ok(ToInt(Uint32(LeFillUpSize(b, 4)), 4))
LeDecodeToUint32(b) == Ok(Uint32(LeFillUpSize(b, 4)))
LeDecodeToInt64(b) == Ok(ToInt(Uint64(LeFillUpSize(b, 8)), 8))
LeDecodeToUint64(b) == Ok(Uint64(LeFillUpSize(b, 8)))

LeDecodeToInt(b) == Ok(ToInt(LeDecodeToInt64(b).v, 8))
LeDecodeToUint(b) == Ok(ToUint(LeDecodeToUint64(b).v, 8))

----------------------------------------------------------------------------
(* Strict multi-slot decode: LeDecode over encoding/binary.Read. *)

\* the wire width of a destination slot of kind k
SizeOf(k) ==
    CASE k \in {"bool", "int8", "uint8"} -> 1
      [] k \in {"int16", "uint16"} -> 2
      [] k \in {"int32", "uint32"} -> 4
      [] k \in {"int64", "uint64"} -> 8

\* the value binary.Read stores through a pointer of kind k from the bytes bs
ReadValue(k, bs) ==
    CASE k = "bool" -> Bool(bs[1] # 0)
      [] k = "int8" -> ToInt(Pat(bs[1], 0, 0, 0), 1)
      [] k = "uint8" -> Pat(bs[1], 0, 0, 0)
      [] k = "int16" -> ToInt(Uint16(bs), 2)
      [] k = "uint16" -> Uint16(bs)
      [] k = "int32" -> ToInt(Uint32(bs), 4)
      [] k = "uint32" -> Uint32(bs)
      [] k = "int64" -> ToInt(Uint64(bs), 8)
      [] k = "uint64" -> Uint64(bs)

\* binary.Read storing the zero-padded bytes on a short read
BinaryReadZeroFill(unread, slot) ==
    LET size == SizeOf(slot.k)
    IN  IF Len(unread) >= size
        THEN [err |-> "nil",
              unread |-> SubSeq(unread, size + 1, Len(unread)),
              slot |-> Val(slot.k, ReadValue(slot.k, SubSeq(unread, 1, size)))]
        ELSE [err |-> IF Len(unread) = 0 THEN "EOF" ELSE "unexpected EOF",
              unread |-> <<>>,
              slot |-> Val(slot.k, ReadValue(slot.k, unread \o [k \in 1..(size - Len(unread)) |-> 0]))]

\* binary.Read(buf, binary.LittleEndian, value): io.ReadFull of the slot's
\* width from the unread bytes, then the store; a short read stores nothing
BinaryRead(unread, slot) ==
    LET size == SizeOf(slot.k)
    IN  IF Len(unread) >= size
        THEN [err |-> "nil",
              unread |-> SubSeq(unread, size + 1, Len(unread)),
              slot |-> Val(slot.k, ReadValue(slot.k, SubSeq(unread, 1, size)))]
        ELSE [err |-> IF Len(unread) = 0 THEN "EOF" ELSE "unexpected EOF",
              unread |-> <<>>,
              slot |-> slot]

Wrap(e, text) == text \o ": " \o e

\* the loop of LeDecode reading every slot from the start of the buffer
RECURSIVE LeDecodeFromRewinding(_, _, _)
LeDecodeFromRewinding(unread, values, i) ==
    IF i > Len(values) THEN [err |-> "nil", slots |-> values]
    ELSE LET r == BinaryRead(unread, values[i])
         IN  IF r.err # "nil"
             THEN [err |-> Wrap(r.err, "binary.Read failed"),
                   slots |-> [values EXCEPT ![i] = r.slot]]
             ELSE LeDecodeFromRewinding(unread, [values EXCEPT ![i] = r.slot], i + 1)

\* the loop of LeDecode from slot i on; binary.Read is handed the pointer to
\* the slot, so what it stores is in the slot whether or not it fails
RECURSIVE LeDecodeFrom(_, _, _)
LeDecodeFrom(unread, values, i) ==
    IF i > Len(values) THEN [err |-> "nil", slots |-> values]
    ELSE LET r == BinaryRead(unread, values[i])
         IN  IF r.err # "nil"
             THEN [err |-> Wrap(r.err, "binary.Read failed"),
                   slots |-> [values EXCEPT ![i] = r.slot]]
             ELSE LeDecodeFrom(r.unread, [values EXCEPT ![i] = r.slot], i + 1)

LeDecode(b, values) == LeDecodeFrom(b, values, 1)

----------------------------------------------------------------------------
(* Inputs. *)

\* limbs around the width boundaries of the adaptive encoder
EdgeBytes == {0, 1, 5, 127, 128, 255}
Limbs1 == {256 * h + l : h \in EdgeBytes, l \in EdgeBytes}
Limbs2 == {0, 1, SignLimb - 1, SignLimb, Ones}
Limbs3 == {0, 1, Ones}
Limbs4 == {0, SignLimb - 1, SignLimb, Ones}

Words64 == {Pat(a, b, c, d) : a \in Limbs1, b \in Limbs2, c \in Limbs3, d \in Limbs4}
Words32 == {Pat(a, b, 0, 0) : a \in Limbs1, b \in Limbs2}
Words16 == {Pat(a, 0, 0, 0) : a \in Limbs1}
Words8 == {Pat(a, 0, 0, 0) : a \in 0..255}

\* the values of each integer type that the encoders are given
ValuesOf(k) ==
    CASE k = "int8" -> {ToInt(x, 1) : x \in Words8}
      [] k = "uint8" -> Words8
      [] k = "int16" -> {ToInt(x, 2) : x \in Words16}
      [] k = "uint16" -> Words16
      [] k = "int32" -> {ToInt(x, 4) : x \in Words32}
      [] k = "uint32" -> Words32
      [] k \in {"int64", "uint64", "int", "uint"} -> Words64

ByteSamples == {0, 5, 255}
Strings == UNION {[1..l -> ByteSamples] : l \in 0..MaxStrLen}

ListsOver(S, max) == UNION {[1..l -> S] : l \in 0..max}

\* the values given to the variadic encoder: the absent value, and one or
\* two values of every recognized kind
Values ==
    {Nil, Val("bool", True), Val("bool", False),
     Val("int8", ToInt(Pat(255, 0, 0, 0), 1)), Val("uint8", Pat(200, 0, 0, 0)),
     Val("int16", ToInt(Pat(Ones - 1, 0, 0, 0), 2)), Val("uint16", Pat(258, 0, 0, 0)),
     Val("int32", ToInt(Pat(1, SignLimb, 0, 0), 4)),
     Val("uint32", Pat(7, 0, 0, 0)), Val("uint32", Pat(9, 0, 0, 0)),
     Val("int64", Pat(0, 0, 0, SignLimb)), Val("uint64", Pat(1, 2, 3, 4)),
     Val("int", Pat(300, 0, 0, 0)), Val("uint", Pat(0, 1, 0, 0)),
     Val("string", <<97, 98>>), Val("bytes", <<5, 0, 255>>)}

\* the fixed-width integers among them, and the kinds of destination slots
FixedKinds ==
    {"int8", "uint8", "int16", "uint16", "int32", "uint32", "int64", "uint64"}
FixedValues == {v \in Values : v.k \in FixedKinds}

\* what a destination slot of kind k holds before LeDecode is called
Prior(k) == Val(k, Pat(42, 0, 0, 0))

----------------------------------------------------------------------------
(* The state: the last encoder call (enc, its values vals, its length n)   *)
(* and the buffer it returned (buf); the last decoder call on that buffer  *)
(* (dec) with its result (out), or for LeDecode the slots and the error.   *)

NoOut == Ok(<<>>)

Init ==
    /\ enc = "none" /\ vals = <<>> /\ n = 0 /\ buf = <<>>
    /\ dec = "none" /\ out = NoOut /\ slots = <<>> /\ err = "nil"

\* The calls share no state, so a behaviour is one encoder call followed by
\* one decoder call on the buffer it returned (or a decoder call on the
\* empty buffer).
Fresh == enc = "none" /\ dec = "none"

Encoded(name, values, length, b) ==
    /\ enc' = name /\ vals' = values /\ n' = length /\ buf' = b
    /\ dec' = "none" /\ out' = NoOut /\ slots' = <<>> /\ err' = "nil"

Undecoded == dec = "none"

Decoded(name, r) ==
    /\ dec' = name /\ out' = r /\ slots' = <<>> /\ err' = "nil"
    /\ UNCHANGED <<enc, vals, n, buf>>

DoLeEncodeInt ==
    Fresh /\ \E i \in ValuesOf("int") : Encoded("LeEncodeInt", <<Val("int", i)>>, 0, LeEncodeInt(i))
DoLeEncodeUint ==
    Fresh /\ \E i \in ValuesOf("uint") : Encoded("LeEncodeUint", <<Val("uint", i)>>, 0, LeEncodeUint(i))
DoLeEncodeInt8 ==
    Fresh /\ \E i \in ValuesOf("int8") : Encoded("LeEncodeInt8", <<Val("int8", i)>>, 0, LeEncodeInt8(i))
DoLeEncodeUint8 ==
    Fresh /\ \E i \in ValuesOf("uint8") : Encoded("LeEncodeUint8", <<Val("uint8", i)>>, 0, LeEncodeUint8(i))
DoLeEncodeInt16 ==
    Fresh /\ \E i \in ValuesOf("int16") : Encoded("LeEncodeInt16", <<Val("int16", i)>>, 0, LeEncodeInt16(i))
DoLeEncodeUint16 ==
    Fresh /\ \E i \in ValuesOf("uint16") : Encoded("LeEncodeUint16", <<Val("uint16", i)>>, 0, LeEncodeUint16(i))
DoLeEncodeInt32 ==
    Fresh /\ \E i \in ValuesOf("int32") : Encoded("LeEncodeInt32", <<Val("int32", i)>>, 0, LeEncodeInt32(i))
DoLeEncodeUint32 ==
    Fresh /\ \E i \in ValuesOf("uint32") : Encoded("LeEncodeUint32", <<Val("uint32", i)>>, 0, LeEncodeUint32(i))
DoLeEncodeInt64 ==
    Fresh /\ \E i \in ValuesOf("int64") : Encoded("LeEncodeInt64", <<Val("int64", i)>>, 0, LeEncodeInt64(i))
DoLeEncodeUint64 ==
    Fresh /\ \E i \in ValuesOf("uint64") : Encoded("LeEncodeUint64", <<Val("uint64", i)>>, 0, LeEncodeUint64(i))
DoLeEncodeBool ==
    Fresh /\ \E b \in {True, False} : Encoded("LeEncodeBool", <<Val("bool", b)>>, 0, LeEncodeBool(b))
DoLeEncodeString ==
    Fresh /\ \E s \in Strings : Encoded("LeEncodeString", <<Val("string", s)>>, 0, LeEncodeString(s))

DoLeDecodeToString == Undecoded /\ Decoded("LeDecodeToString", LeDecodeToString(buf))
DoLeDecodeToBool == Undecoded /\ Decoded("LeDecodeToBool", LeDecodeToBool(buf))
DoLeDecodeToInt8 == Undecoded /\ Decoded("LeDecodeToInt8", LeDecodeToInt8(buf))
DoLeDecodeToUint8 == Undecoded /\ Decoded("LeDecodeToUint8", LeDecodeToUint8(buf))
DoLeDecodeToInt16 == Undecoded /\ Decoded("LeDecodeToInt16", LeDecodeToInt16(buf))
DoLeDecodeToUint16 == Undecoded /\ Decoded("LeDecodeToUint16", LeDecodeToUint16(buf))
DoLeDecodeToInt32 == Undecoded /\ Decoded("LeDecodeToInt32", LeDecodeToInt32(buf))
DoLeDecodeToUint32 == Undecoded /\ Decoded("LeDecodeToUint32", LeDecodeToUint32(buf))
DoLeDecodeToInt64 == Undecoded /\ Decoded("LeDecodeToInt64", LeDecodeToInt64(buf))
DoLeDecodeToUint64 == Undecoded /\ Decoded("LeDecodeToUint64", LeDecodeToUint64(buf))
DoLeDecodeToInt == Undecoded /\ Decoded("LeDecodeToInt", LeDecodeToInt(buf))
DoLeDecodeToUint == Undecoded /\ Decoded("LeDecodeToUint", LeDecodeToUint(buf))

DoLeEncode(S, max) ==
    Fresh /\ \E values \in ListsOver(S, max) :
        Encoded("LeEncode", values, 0, LeEncode(values))

DoLeEncodeByLength(S, max) ==
    Fresh /\ \E values \in ListsOver(S, max), length \in 0..MaxN :
        Encoded("LeEncodeByLength", values, length, LeEncodeByLength(length, values))

DoLeDecode ==
    /\ Undecoded
    /\ \E kinds \in ListsOver(FixedKinds, MaxSlots) :
         LET r == LeDecode(buf, [i \in 1..Len(kinds) |-> Prior(kinds[i])])
         IN  /\ dec' = "LeDecode" /\ slots' = r.slots /\ err' = r.err
             /\ out' = NoOut
             /\ UNCHANGED <<enc, vals, n, buf>>

\* the scalar codec: single-value encoders, and the lenient decoders applied
\* to the buffer an encoder returned
Next ==
    \/ DoLeEncodeInt \/ DoLeEncodeUint
    \/ DoLeEncodeInt8 \/ DoLeEncodeUint8
    \/ DoLeEncodeInt16 \/ DoLeEncodeUint16
    \/ DoLeEncodeInt32 \/ DoLeEncodeUint32
    \/ DoLeEncodeInt64 \/ DoLeEncodeUint64
    \/ DoLeEncodeBool \/ DoLeEncodeString
    \/ DoLeDecodeToString \/ DoLeDecodeToBool
    \/ DoLeDecodeToInt8 \/ DoLeDecodeToUint8
    \/ DoLeDecodeToInt16 \/ DoLeDecodeToUint16
    \/ DoLeDecodeToInt32 \/ DoLeDecodeToUint32
    \/ DoLeDecodeToInt64 \/ DoLeDecodeToUint64
    \/ DoLeDecodeToInt \/ DoLeDecodeToUint

Spec == Init /\ [][Next]_vars

\* the variadic encoder and its length-normalizing variant
NextList == DoLeEncode(Values, MaxVals) \/ DoLeEncodeByLength(Values, MaxVals)

SpecList == Init /\ [][NextList]_vars

\* the variadic encoder of fixed-width integers, and the strict decoder
\* applied to the buffer it returned
NextStrict == DoLeEncode(FixedValues, MaxSlots) \/ DoLeDecode

SpecStrict == Init /\ [][NextStrict]_vars

----------------------------------------------------------------------------
(* What the properties speak of: the number a byte sequence denotes read   *)
(* least-significant byte first, and the range of a width.                 *)

Widths == {1, 2, 4, 8}

ByteAt(b, k) == IF k <= Len(b) THEN b[k] ELSE 0

\* the first w bytes of b (a missing byte counting as zero), read
\* least-significant byte first, as an unsigned number
LittleEndianValue(b, w) ==
    [j \in 1..4 |-> (IF 2 * j - 1 <= w THEN ByteAt(b, 2 * j - 1) ELSE 0)
                    + 256 * (IF 2 * j <= w THEN ByteAt(b, 2 * j) ELSE 0)]

\* the w-byte unsigned number x read as two's complement
TwosComplement(x, w) ==
    IF ByteOf(x, w - 1) < 128 THEN x
    ELSE [j \in 1..4 |-> IF 2 * j <= w THEN x[j]
                         ELSE IF 2 * j - 1 <= w THEN x[j] + (Limb - 256)
                         ELSE Ones]

Interpret(b, w, signed) ==
    IF signed THEN TwosComplement(LittleEndianValue(b, w), w)
    ELSE LittleEndianValue(b, w)

\* v lies in the range of w bytes: its low w bytes alone denote it
InRange(v, w, signed) == Interpret([k \in 1..8 |-> ByteOf(v, k - 1)], w, signed) = v

\* the smallest width whose range contains v
MinWidth(v, signed) ==
    CHOOSE w \in Widths :
        /\ InRange(v, w, signed)
        /\ \A u \in Widths : u < w => ~InRange(v, u, signed)

IsNegative(v) == v[4] >= SignLimb

WidthOf ==
    [LeDecodeToInt8 |-> 1, LeDecodeToUint8 |-> 1,
     LeDecodeToInt16 |-> 2, LeDecodeToUint16 |-> 2,
     LeDecodeToInt32 |-> 4, LeDecodeToUint32 |-> 4,
     LeDecodeToInt64 |-> 8, LeDecodeToUint64 |-> 8,
     LeDecodeToInt |-> 8, LeDecodeToUint |-> 8]

SignedDecoders ==
    {"LeDecodeToInt8", "LeDecodeToInt16", "LeDecodeToInt32", "LeDecodeToInt64",
     "LeDecodeToInt"}

----------------------------------------------------------------------------
(* Properties of the scalar codec (Spec). *)

\* C1: LeEncodeInt and LeEncodeUint emit exactly w bytes, w the smallest
\* width in {1,2,4,8} whose range (two's complement for int, 0..2^(8w)-1 for
\* uint) contains the value, negative values included, and the bytes read
\* little-endian at that width give the value back.
C1_AdaptiveWidthIsMinimalAndLossless ==
    enc \in {"LeEncodeInt", "LeEncodeUint"} =>
        LET v == vals[1].v
            signed == (enc = "LeEncodeInt")
            w == MinWidth(v, signed)
        IN  Len(buf) = w /\ Interpret(buf, w, signed) = v

\* C2: every single-value decoder returns a value for every buffer, the
\* empty one included, a short buffer counting as right-padded with zeros
\* (so that an 8-bit decode of the empty buffer is 0).
C2_LenientDecodersAreTotal ==
    (dec # "none" /\ dec # "LeDecode") =>
        /\ out.ok
        /\ dec \in DOMAIN WidthOf =>
               out.v = Interpret(buf, WidthOf[dec], dec \in SignedDecoders)

\* each fixed-width encoder with the decoder of its type
FixedPairs ==
    {<<"LeEncodeInt8", "LeDecodeToInt8">>, <<"LeEncodeUint8", "LeDecodeToUint8">>,
     <<"LeEncodeInt16", "LeDecodeToInt16">>, <<"LeEncodeUint16", "LeDecodeToUint16">>,
     <<"LeEncodeInt32", "LeDecodeToInt32">>, <<"LeEncodeUint32", "LeDecodeToUint32">>,
     <<"LeEncodeInt64", "LeDecodeToInt64">>, <<"LeEncodeUint64", "LeDecodeToUint64">>}

\* C5: for each fixed-width integer type T, LeEncodeT(v) has the width of T,
\* least-significant byte first and two's complement, and
\* LeDecodeToT(LeEncodeT(v)) = v.
C5_FixedWidthRoundTrip ==
    <<enc, dec>> \in FixedPairs =>
        /\ Len(buf) = WidthOf[dec]
        /\ Interpret(buf, WidthOf[dec], dec \in SignedDecoders) = vals[1].v
        /\ out = Ok(vals[1].v)

C5_Witness ==
    /\ enc = "LeEncodeInt16" /\ dec = "LeDecodeToInt16"
    /\ vals[1].v = Pat(SignLimb, Ones, Ones, Ones)
    /\ buf = <<0, 128>>
    /\ out = Ok(vals[1].v)

\* C7: a decoder of width W in {2,4,8} returns the little-endian reading of
\* the first W bytes of the buffer, a buffer shorter than W being extended
\* with zero bytes (not with the sign); bytes beyond W do not matter.
C7_LenientDecodePadsAndTruncates ==
    (dec \in DOMAIN WidthOf /\ WidthOf[dec] > 1) =>
        LET W == WidthOf[dec]
            kept == IF Len(buf) >= W THEN SubSeq(buf, 1, W) ELSE buf \o Zeros(W - Len(buf))
        IN  /\ out.ok
            /\ out.v = Interpret(kept, W, dec \in SignedDecoders)
            /\ Len(buf) < W => ~IsNegative(out.v)

C7_Witness ==
    /\ dec = "LeDecodeToUint16" /\ buf = <<5, 0, 255>> /\ out = Ok(Pat(5, 0, 0, 0))

\* C10 as stated: LeDecodeToUint(LeEncodeUint(v)) = v for every uint v and
\* LeDecodeToInt(LeEncodeInt(v)) = v for every int v, negative ones included.
C10_NativeRoundTrip ==
    <<enc, dec>> \in {<<"LeEncodeUint", "LeDecodeToUint">>, <<"LeEncodeInt", "LeDecodeToInt">>}
        => out = Ok(vals[1].v)

\* C10 amended: the round trip holds for every uint v and for every int
\* v >= 0; for an int v < 0 the encoder emits the low byte of v alone and the
\* decoder returns that byte zero-extended, a number in 0..255 and not v.
C10_NativeRoundTripNonNegative ==
    /\ <<enc, dec>> = <<"LeEncodeUint", "LeDecodeToUint">> => out = Ok(vals[1].v)
    /\ <<enc, dec>> = <<"LeEncodeInt", "LeDecodeToInt">> =>
           IF IsNegative(vals[1].v)
           THEN /\ buf = <<ByteOf(vals[1].v, 0)>>
                /\ out = Ok(Pat(ByteOf(vals[1].v, 0), 0, 0, 0))
                /\ out.v # vals[1].v
           ELSE out = Ok(vals[1].v)

C10_Witness ==
    /\ enc = "LeEncodeInt" /\ dec = "LeDecodeToInt"
    /\ vals[1].v = Pat(256, 0, 0, 0) /\ Len(buf) = 2
    /\ out = Ok(vals[1].v)

----------------------------------------------------------------------------
(* Properties of the variadic encoder (SpecList). *)

HasNil(values) == \E k \in 1..Len(values) : values[k] = Nil

\* the position of the first absent value
FirstNil(values) ==
    CHOOSE k \in 1..Len(values) :
        values[k] = Nil /\ \A j \in 1..(k - 1) : values[j] # Nil

\* LeEncode(v1) \o ... \o LeEncode(vk), each value encoded by a call of its own
RECURSIVE ConcatSingles(_, _)
ConcatSingles(values, k) ==
    IF k = 0 THEN <<>>
    ELSE ConcatSingles(values, k - 1) \o LeEncode(<<values[k]>>)

RECURSIVE SumSingles(_, _)
SumSingles(values, k) ==
    IF k = 0 THEN 0 ELSE SumSingles(values, k - 1) + Len(LeEncode(<<values[k]>>))

\* C4: when the first absent value of the list is at position k, LeEncode
\* returns exactly the encodings of the values before k, concatenated;
\* nothing of the values from k on is in it (for k = 1, the empty buffer).
C4_AbsentValueEndsEncoding ==
    (enc = "LeEncode" /\ HasNil(vals)) =>
        buf = ConcatSingles(vals, FirstNil(vals) - 1)

C4_Witness ==
    /\ enc = "LeEncode"
    /\ vals = <<Val("uint32", Pat(7, 0, 0, 0)), Nil, Val("uint32", Pat(9, 0, 0, 0))>>
    /\ buf = <<7, 0, 0, 0>>

\* C6: LeEncodeByLength(N, values) has length exactly N; its byte i is
\* byte i of LeEncode(values) wherever that exists, and 0 elsewhere.
C6_LengthIsNormalized ==
    enc = "LeEncodeByLength" =>
        LET full == LeEncode(vals)
        IN  /\ Len(buf) = n
            /\ \A i \in 1..n : buf[i] = IF i <= Len(full) THEN full[i] ELSE 0

C6_Witness ==
    /\ enc = "LeEncodeByLength" /\ n = 5
    /\ vals = <<Val("uint32", Pat(7, 0, 0, 0)), Val("uint32", Pat(9, 0, 0, 0))>>
    /\ buf = <<7, 0, 0, 0, 9>>

\* C8: for a list without an absent value, LeEncode(v1, ..., vn) is
\* LeEncode(v1) \o ... \o LeEncode(vn), in input order and with nothing in
\* between; its length is the sum of the lengths.
C8_EncodingIsConcatenation ==
    (enc = "LeEncode" /\ ~HasNil(vals)) =>
        /\ buf = ConcatSingles(vals, Len(vals))
        /\ Len(buf) = SumSingles(vals, Len(vals))

C8_Witness ==
    /\ enc = "LeEncode"
    /\ vals = <<Val("string", <<97, 98>>), Val("int16", Pat(Ones - 1, Ones, Ones, Ones)),
                Val("bool", True)>>
    /\ buf = <<97, 98, 254, 255, 1>>

----------------------------------------------------------------------------
(* Properties of the strict decoder (SpecStrict). *)

SignedKinds == {"int8", "int16", "int32", "int64"}

\* the number of bytes before slot k: the widths of the slots before it
RECURSIVE Offset(_)
Offset(k) == IF k = 1 THEN 0 ELSE Offset(k - 1) + SizeOf(slots[k - 1].k)

TotalWidth == Offset(Len(slots) + 1)

\* the little-endian reading of the bytes of slot k
SlotReading(k) ==
    LET w == SizeOf(slots[k].k)
    IN  Interpret(SubSeq(buf, Offset(k) + 1, Offset(k) + w), w, slots[k].k \in SignedKinds)

ShortBuffer == {"binary.Read failed: EOF", "binary.Read failed: unexpected EOF"}

\* C3 as stated: with fewer bytes than the slots' widths add up to, LeDecode
\* returns a short-buffer error and every slot still holds its prior value.
C3_FailureLeavesAllSlotsUntouched ==
    (dec = "LeDecode" /\ Len(buf) < TotalWidth) =>
        /\ err \in ShortBuffer
        /\ \A k \in 1..Len(slots) : slots[k] = Prior(slots[k].k)

\* C3 amended: with fewer bytes than the slots' widths add up to, LeDecode
\* returns a short-buffer error; the first slot whose bytes are not all there
\* and every slot after it still hold their prior values, and every slot
\* before it holds the value decoded from its bytes.
C3_FailureKeepsFilledPrefix ==
    (dec = "LeDecode" /\ Len(buf) < TotalWidth) =>
        /\ err \in ShortBuffer
        /\ \A k \in 1..Len(slots) :
               slots[k].v = IF Offset(k + 1) <= Len(buf) THEN SlotReading(k)
                            ELSE Prior(slots[k].k).v

C3_Witness ==
    /\ dec = "LeDecode" /\ Len(buf) = 5 /\ err = "binary.Read failed: unexpected EOF"
    /\ slots = <<Val("uint32", Pat(7, 0, 0, 0)), Prior("uint32")>>

\* C9: with at least as many bytes as the slots' widths add up to, LeDecode
\* succeeds and slot k holds the little-endian reading of its own bytes,
\* those from the offset that the widths before it add up to; bytes after
\* the last slot are ignored.  So decoding LeEncode(values) into slots of the
\* values' types restores the values.
C9_SlotsReadAtTheirOffsets ==
    (dec = "LeDecode" /\ Len(buf) >= TotalWidth) =>
        /\ err = "nil"
        /\ \A k \in 1..Len(slots) : slots[k].v = SlotReading(k)
        /\ [k \in 1..Len(slots) |-> slots[k].k] = [k \in 1..Len(vals) |-> vals[k].k]
               => slots = vals

C9_Witness ==
    /\ dec = "LeDecode" /\ err = "nil"
    /\ vals = <<Val("uint32", Pat(7, 0, 0, 0)), Val("int16", Pat(Ones - 1, Ones, Ones, Ones))>>
    /\ slots = vals

====
